---- MODULE Spec2Model ----
(***************************************************************************)
(* Model of the multi-agent orchestrator of ai_lecture_notes:              *)
(*   backend/app/agents/orchestrator.py   the graph, its three nodes and   *)
(*                                        MultiAgentOrchestrator.process   *)
(*   backend/app/tools/youtube_tool.py    YouTubeTranscriptExtractor       *)
(*   backend/app/tools/summarizer.py      LectureSummarizer                *)
(*   backend/app/tools/tool_extractor.py  AIToolExtractor                  *)
(*                                                                         *)
(* Text is a sequence of one-character strings, so that joins, prefixes    *)
(* and the video-id pattern are computed and not assumed.  An optional     *)
(* value (Python None or a value) is a sequence of length 0 or 1.          *)
(***************************************************************************)
EXTENDS Integers, Sequences, FiniteSets, TLC

VARIABLES
    pc,          \* position of MultiAgentOrchestrator.process: idle, invoking, returned, raised
    video_url,   \* the argument process was called with
    run,         \* run-level state of the execution engine
    stage,       \* per-stage state of the execution engine
    state,       \* the graph state (OverallState) of the run in progress
    seen,        \* what each consumer node read from the state and passed on
    collab,      \* what each stage's collaborator answered: none, returned, raised
    answer,      \* the value each stage's collaborator returned (when it returned)
    calls,       \* number of calls made to each external service
    error,       \* the first failure the engine observed (optional)
    final_state, \* what process returned to its caller (optional)
    raised,      \* what process raised to its caller (optional)
    writers,     \* for each field of the state, the stages that wrote it, in order
    execs,       \* number of times each stage's node was started
    failures,    \* the failures of the stages, in the order they happened
    svc_raised,  \* the errors the external services raised, in order
    response,    \* what process_video answered the request with (optional)
    step_error,  \* the error a step of process_video raised after process (optional)
    rid,         \* the run the other variables describe (0: the only run)
    other,       \* the variables of the other run, when two runs interleave
    tool,        \* the last call of a function of YouTubeTranscriptExtractor, with its answer
    conn,        \* the module state of database/connection.py, with the history of its calls
    sess,        \* the database session get_db gave the request, and what get_db did at its end
    db           \* the committed rows of the database, with the history of the requests

runvars == <<pc, video_url, run, stage, state, seen, collab, answer, calls, error,
             final_state, raised, writers, execs, failures, svc_raised, response,
             step_error, sess>>

libvars == <<tool, conn>>

vars == <<runvars, rid, other, libvars, db>>

----------------------------------------------------------------------------
(* Bounds of the model. *)

MaxSegs == 2

MaxTools == 2

----------------------------------------------------------------------------
(* Optional values and results of calls that may raise. *)

None == <<>>

Some(v) == <<v>>

Ok(v) == [ok |-> TRUE, val |-> v, err |-> None]

Raise(type, msg) == [ok |-> FALSE, val |-> None, err |-> [type |-> type, msg |-> msg]]

EmptyDict == [k \in {} |-> None]

DictGet(d, k, default) == IF k \in DOMAIN d THEN d[k] ELSE default

----------------------------------------------------------------------------
(* Text. *)

Space == <<" ">>

RECURSIVE Join(_)
Join(texts) ==
    IF Len(texts) = 0 THEN <<>>
    ELSE IF Len(texts) = 1 THEN texts[1]
    ELSE texts[1] \o Space \o Join(Tail(texts))

IdChars == {"0", "1", "2", "3", "4", "5", "6", "7", "8", "9", "A", "B", "C", "D", "E", "F", "G", "H", "I", "J", "K", "L", "M", "N", "O", "P", "Q", "R", "S", "T", "U", "V", "W", "X", "Y", "Z", "a", "b", "c", "d", "e", "f", "g", "h", "i", "j", "k", "l", "m", "n", "o", "p", "q", "r", "s", "t", "u", "v", "w", "x", "y", "z", "_", "-"}

IdLen == 11

UnknownTitle == <<"U", "n", "k", "n", "o", "w", "n", " ", "T", "i", "t", "l", "e">>

UnknownChannel == <<"U", "n", "k", "n", "o", "w", "n", " ", "C", "h", "a", "n", "n", "e", "l">>

Unknown == <<"U", "n", "k", "n", "o", "w", "n">>

VideoPrefix == <<"V", "i", "d", "e", "o", " ">>

----------------------------------------------------------------------------
(* YouTubeTranscriptExtractor._extract_video_id: re.search of three        *)
(* patterns, each a literal alternation followed by a group of IdLen       *)
(* characters of IdChars; the first pattern that matches anywhere wins,    *)
(* and within a pattern the leftmost match.                                *)

HasPrefixAt(url, i, lit) ==
    /\ i + Len(lit) - 1 <= Len(url)
    /\ \A j \in 1..Len(lit) : url[i + j - 1] = lit[j]

GroupAt(url, i) ==
    /\ i + IdLen - 1 <= Len(url)
    /\ \A j \in 0..(IdLen - 1) : url[i + j] \in IdChars

MatchesAt(url, i, alts) ==
    \E a \in 1..Len(alts) : HasPrefixAt(url, i, alts[a]) /\ GroupAt(url, i + Len(alts[a]))

\* the group of the match at i: the first alternative that matches decides
GroupOfMatch(url, i, alts) ==
    LET a == CHOOSE a \in 1..Len(alts) :
                 /\ HasPrefixAt(url, i, alts[a]) /\ GroupAt(url, i + Len(alts[a]))
                 /\ \A b \in 1..(a - 1) :
                        ~(HasPrefixAt(url, i, alts[b]) /\ GroupAt(url, i + Len(alts[b])))
        from == i + Len(alts[a])
    IN  SubSeq(url, from, from + IdLen - 1)

ReSearch(url, alts) ==
    LET hits == {i \in 1..Len(url) : MatchesAt(url, i, alts)}
    IN  IF hits = {} THEN None
        ELSE LET i == CHOOSE i \in hits : \A k \in hits : i <= k
             IN  Some(GroupOfMatch(url, i, alts))

patterns ==
    << << <<"v", "=">>, <<"/">> >>,
       << <<"e", "m", "b", "e", "d", "/">> >>,
       << <<"v", "/">> >> >>

RECURSIVE FirstPattern(_, _)
FirstPattern(url, p) ==
    IF p > Len(patterns) THEN None
    ELSE IF ReSearch(url, patterns[p]) # None THEN ReSearch(url, patterns[p])
    ELSE FirstPattern(url, p + 1)

_extract_video_id(url) == FirstPattern(url, 1)

----------------------------------------------------------------------------
(* YouTubeTranscriptExtractor._get_video_metadata.  yt is what yt-dlp's    *)
(* extract_info did: it raised, returned None, or returned an info dict    *)
(* whose values are optional.                                              *)

FallbackMetadata(video_id) ==
    ("title" :> Some(VideoPrefix \o video_id)) @@ ("uploader" :> Some(Unknown))

_get_video_metadata(video_id, yt) ==
    IF yt.kind = "raise" THEN FallbackMetadata(video_id)
    ELSE IF yt.kind = "none" THEN FallbackMetadata(video_id)
    ELSE ("title" :> DictGet(yt.info, "title", Some(UnknownTitle)))
         @@ ("uploader" :> DictGet(yt.info, "uploader", Some(UnknownChannel)))
         @@ ("duration" :> DictGet(yt.info, "duration", None))

(* YouTubeTranscriptExtractor._get_transcript.  api is what                *)
(* YouTubeTranscriptApi.fetch did: it raised or returned segments.  The    *)
(* answer is optional: None when the call raised.                          *)

_get_transcript(api) ==
    IF api.kind = "raise" THEN None
    ELSE Some([i \in 1..Len(api.segments) |->
                  [text |-> api.segments[i].text, start |-> api.segments[i].start]])

_build_full_text(transcript_data) ==
    Join([i \in 1..Len(transcript_data) |-> transcript_data[i].text])

----------------------------------------------------------------------------
(* YouTubeTranscriptExtractor._create_chunks: one pass over the segments.  *)
(* A chunk id f"{video_id}_chunk_{n}" is the pair <<video_id, n>>.         *)

chunk_duration == 60

TranscriptChunk(chunk_id, text, start_time) ==
    [chunk_id |-> chunk_id, text |-> text, start_time |-> start_time]

ChunkLoopInit ==
    [chunks |-> <<>>, current_chunk_text |-> <<>>, current_chunk_start |-> 0,
     chunk_index |-> 0]

ChunkLoopBody(acc, item, video_id) ==
    LET closes == /\ item.start >= (acc.chunk_index + 1) * chunk_duration
                  /\ acc.current_chunk_text # <<>>
        after == IF closes
                 THEN [chunks |-> Append(acc.chunks,
                                     TranscriptChunk(<<video_id, acc.chunk_index + 1>>,
                                                     Join(acc.current_chunk_text),
                                                     acc.current_chunk_start)),
                       current_chunk_text |-> <<>>,
                       current_chunk_start |-> item.start,
                       chunk_index |-> acc.chunk_index + 1]
                 ELSE acc
    IN  [after EXCEPT !.current_chunk_text = Append(@, item.text)]

RECURSIVE ChunkLoop(_, _, _, _)
ChunkLoop(acc, transcript_data, i, video_id) ==
    IF i > Len(transcript_data) THEN acc
    ELSE ChunkLoop(ChunkLoopBody(acc, transcript_data[i], video_id),
                   transcript_data, i + 1, video_id)

\* the loop without the chunk added after it
_create_chunks_NoFinalChunk(transcript_data, video_id) ==
    ChunkLoop(ChunkLoopInit, transcript_data, 1, video_id).chunks

_create_chunks(transcript_data, video_id) ==
    LET acc == ChunkLoop(ChunkLoopInit, transcript_data, 1, video_id)
    IN  IF acc.current_chunk_text # <<>>
        THEN Append(acc.chunks,
                    TranscriptChunk(<<video_id, acc.chunk_index + 1>>,
                                    Join(acc.current_chunk_text),
                                    acc.current_chunk_start))
        ELSE acc.chunks

----------------------------------------------------------------------------
(* app.models.VideoMetadata: construction validates the field types (a str *)
(* field rejects None), model_dump turns the object into a dict.  The      *)
(* object is the tuple of its fields in declaration order.                 *)

VideoMetadataValid(video_title, channel_name) ==
    video_title # None /\ channel_name # None

VideoMetadata(video_id, video_title, video_url_, channel_name, duration) ==
    <<video_id, video_title[1], video_url_, channel_name[1], duration>>

VideoMetadata_model_dump(m) ==
    [video_id |-> m[1], video_title |-> m[2], video_url |-> m[3],
     channel_name |-> m[4], duration |-> m[5]]

TranscriptData(metadata, chunks, full_text) ==
    [metadata |-> metadata, transcript_chunks |-> chunks, full_text |-> full_text]

----------------------------------------------------------------------------
(* YouTubeTranscriptExtractor.extract, given what the two external         *)
(* services do when they are asked.  The answer holds the result and the   *)
(* number of calls made to each service.                                   *)

ExtractAnswer(result, yt_calls, api_calls) ==
    [result |-> result, yt_calls |-> yt_calls, api_calls |-> api_calls]

\* extract looking the metadata up before it checks the video id
extract_LookupBeforeCheck(url, yt, api) ==
    LET video_id == _extract_video_id(url)
    IN  IF video_id = None
        THEN ExtractAnswer(Raise("ValueError", "Invalid YouTube URL format"), 1, 0)
        ELSE
        LET metadata_dict == _get_video_metadata(video_id[1], yt)
            transcript_raw == _get_transcript(api)
        IN  IF transcript_raw = None \/ transcript_raw[1] = <<>>
            THEN ExtractAnswer(
                     Raise("ValueError", "No transcript available for this video"), 1, 1)
            ELSE
            LET full_text == _build_full_text(transcript_raw[1])
                chunks == _create_chunks(transcript_raw[1], video_id[1])
                title == DictGet(metadata_dict, "title", Some(UnknownTitle))
                channel == DictGet(metadata_dict, "uploader", Some(UnknownChannel))
                duration == DictGet(metadata_dict, "duration", None)
            IN  IF ~VideoMetadataValid(title, channel)
                THEN ExtractAnswer(Raise("ValidationError", "VideoMetadata"), 1, 1)
                ELSE ExtractAnswer(
                         Ok(TranscriptData(
                                VideoMetadata(video_id[1], title, url, channel, duration),
                                chunks, full_text)),
                         1, 1)

extract(url, yt, api) ==
    LET video_id == _extract_video_id(url)
    IN  IF video_id = None
        THEN ExtractAnswer(Raise("ValueError", "Invalid YouTube URL format"), 0, 0)
        ELSE
        LET metadata_dict == _get_video_metadata(video_id[1], yt)
            transcript_raw == _get_transcript(api)
        IN  IF transcript_raw = None \/ transcript_raw[1] = <<>>
            THEN ExtractAnswer(
                     Raise("ValueError", "No transcript available for this video"), 1, 1)
            ELSE
            LET full_text == _build_full_text(transcript_raw[1])
                chunks == _create_chunks(transcript_raw[1], video_id[1])
                title == DictGet(metadata_dict, "title", Some(UnknownTitle))
                channel == DictGet(metadata_dict, "uploader", Some(UnknownChannel))
                duration == DictGet(metadata_dict, "duration", None)
            IN  IF ~VideoMetadataValid(title, channel)
                THEN ExtractAnswer(Raise("ValidationError", "VideoMetadata"), 1, 1)
                ELSE ExtractAnswer(
                         Ok(TranscriptData(
                                VideoMetadata(video_id[1], title, url, channel, duration),
                                chunks, full_text)),
                         1, 1)

----------------------------------------------------------------------------
(* LectureSummarizer: the constructor needs an API key; summarize returns  *)
(* response.text, which is optional.  gem is what generate_content did.    *)

LectureSummarizer_init(has_key) ==
    IF has_key THEN Ok(None)
    ELSE Raise("ValueError", "GEMINI_API_KEY or GOOGLE_API_KEY must be set in environment")

summarize(transcript, video_title, gem) ==
    IF gem.kind = "raise" THEN Raise("ProviderError", "generate_content")
    ELSE Ok(gem.text)

(* AIToolExtractor: the constructor needs an API key; extract returns the  *)
(* parsed tools, or the empty list when nothing was parsed.  oa is what    *)
(* chat.completions.parse did.  An AITool object is the tuple of its       *)
(* fields in declaration order.                                            *)

AIToolExtractor_init(has_key) ==
    IF has_key THEN Ok(None)
    ELSE Raise("ValueError", "OPENAI_API_KEY must be set in environment")

AIToolExtractor_extract(transcript, video_title, oa) ==
    IF oa.kind = "raise" THEN Raise("ProviderError", "chat.completions.parse")
    ELSE IF oa.parsed = None THEN Ok(<<>>)
    ELSE Ok(oa.parsed[1])

AITool_model_dump(t) ==
    [tool_name |-> t[1], category |-> t[2], context_snippet |-> t[3],
     timestamp |-> t[4], confidence_score |-> t[5], usage_context |-> t[6]]

----------------------------------------------------------------------------
(* The graph state and its reducers (OverallState).                        *)

\* the initial state kept in one place for all runs: a run starts from what
\* the other run has left there
initial_state_shared(url) ==
    IF other[5] # EmptyDict
    THEN [other[5] EXCEPT !.video_url = url]
    ELSE [video_url |-> url, transcript |-> <<>>, video_metadata |-> EmptyDict,
          lecture_notes |-> <<>>, ai_tools |-> <<>>, agent_execution_order |-> <<>>]

initial_state(url) ==
    [video_url |-> url, transcript |-> <<>>, video_metadata |-> EmptyDict,
     lecture_notes |-> <<>>, ai_tools |-> <<>>, agent_execution_order |-> <<>>]

\* the accumulator without its reducer: the last writer wins
ReducerLastValue(key, old, new) == new

\* Annotated[List[str], operator.add] concatenates; any other key keeps the last value
Reducer(key, old, new) ==
    IF key = "agent_execution_order" THEN old \o new ELSE new

Merge(st, update) ==
    [k \in DOMAIN st |->
        IF k \in DOMAIN update THEN Reducer(k, st[k], update[k]) ELSE st[k]]

----------------------------------------------------------------------------
(* The three nodes.  A node's answer holds its result (the update it       *)
(* returns, or the error it raises), what its collaborator did and         *)
(* returned, and the calls it made.                                        *)

Services == {"yt_dlp", "transcript_api", "gemini", "openai"}

NoCalls == [s \in Services |-> 0]

NodeAnswer(result, did, returned, made) ==
    [result |-> result, collab |-> did, answer |-> returned, calls |-> made]

\* the node with the extractor's error caught and an empty transcript returned
fetch_transcript_node_swallow(st, o) ==
    LET a == extract(st.video_url, o.yt, o.api)
        made == [NoCalls EXCEPT !["yt_dlp"] = a.yt_calls,
                                !["transcript_api"] = a.api_calls]
    IN  IF ~a.result.ok
        THEN NodeAnswer(Ok([transcript |-> <<>>, video_metadata |-> EmptyDict,
                            agent_execution_order |-> <<"fetch_transcript">>]),
                        "raised", None, made)
        ELSE NodeAnswer(
                 Ok([transcript |-> a.result.val.full_text,
                     video_metadata |-> VideoMetadata_model_dump(a.result.val.metadata),
                     agent_execution_order |-> <<"fetch_transcript">>]),
                 "returned", Some(a.result.val), made)

fetch_transcript_node(st, o) ==
    LET a == extract(st.video_url, o.yt, o.api)
        made == [NoCalls EXCEPT !["yt_dlp"] = a.yt_calls,
                                !["transcript_api"] = a.api_calls]
    IN  IF ~a.result.ok
        THEN NodeAnswer(a.result, "raised", None, made)
        ELSE NodeAnswer(
                 Ok([transcript |-> a.result.val.full_text,
                     video_metadata |-> VideoMetadata_model_dump(a.result.val.metadata),
                     agent_execution_order |-> <<"fetch_transcript">>]),
                 "returned", Some(a.result.val), made)

state_video_title(st) ==
    IF "video_title" \in DOMAIN st.video_metadata
    THEN Some(st.video_metadata["video_title"]) ELSE None

\* the node also writing the transcript back, a field that Fetch owns
summarize_node_overwrites(st, o) ==
    LET made == [NoCalls EXCEPT !["gemini"] = 1]
        r == summarize(st.transcript, state_video_title(st), o.gemini)
    IN  IF ~LectureSummarizer_init(o.has_key).ok
        THEN NodeAnswer(LectureSummarizer_init(o.has_key), "none", None, NoCalls)
        ELSE IF ~r.ok THEN NodeAnswer(r, "raised", None, made)
        ELSE IF r.val = None
        THEN NodeAnswer(Raise("TypeError", "object of type 'NoneType' has no len()"),
                        "returned", Some(r.val), made)
        ELSE NodeAnswer(Ok([lecture_notes |-> r.val[1], transcript |-> st.transcript,
                            agent_execution_order |-> <<"summarize">>]),
                        "returned", Some(r.val), made)

\* the node calling the provider a second time when the first call fails
summarize_node_retry(st, o) ==
    LET made == [NoCalls EXCEPT !["gemini"] = 1]
        again == [NoCalls EXCEPT !["gemini"] = 2]
        r == summarize(st.transcript, state_video_title(st), o.gemini)
    IN  IF ~LectureSummarizer_init(o.has_key).ok
        THEN NodeAnswer(LectureSummarizer_init(o.has_key), "none", None, NoCalls)
        ELSE IF ~r.ok THEN NodeAnswer(r, "raised", None, again)
        ELSE IF r.val = None
        THEN NodeAnswer(Raise("TypeError", "object of type 'NoneType' has no len()"),
                        "returned", Some(r.val), made)
        ELSE NodeAnswer(Ok([lecture_notes |-> r.val[1],
                            agent_execution_order |-> <<"summarize">>]),
                        "returned", Some(r.val), made)

\* the node returning its notes without its entry for the accumulator
summarize_node_untraced(st, o) ==
    LET made == [NoCalls EXCEPT !["gemini"] = 1]
        r == summarize(st.transcript, state_video_title(st), o.gemini)
    IN  IF ~LectureSummarizer_init(o.has_key).ok
        THEN NodeAnswer(LectureSummarizer_init(o.has_key), "none", None, NoCalls)
        ELSE IF ~r.ok THEN NodeAnswer(r, "raised", None, made)
        ELSE IF r.val = None
        THEN NodeAnswer(Raise("TypeError", "object of type 'NoneType' has no len()"),
                        "returned", Some(r.val), made)
        ELSE NodeAnswer(Ok([lecture_notes |-> r.val[1]]),
                        "returned", Some(r.val), made)

summarize_node(st, o) ==
    LET made == [NoCalls EXCEPT !["gemini"] = 1]
        r == summarize(st.transcript, state_video_title(st), o.gemini)
    IN  IF ~LectureSummarizer_init(o.has_key).ok
        THEN NodeAnswer(LectureSummarizer_init(o.has_key), "none", None, NoCalls)
        ELSE IF ~r.ok THEN NodeAnswer(r, "raised", None, made)
        ELSE IF r.val = None
        THEN NodeAnswer(Raise("TypeError", "object of type 'NoneType' has no len()"),
                        "returned", Some(r.val), made)
        ELSE NodeAnswer(Ok([lecture_notes |-> r.val[1],
                            agent_execution_order |-> <<"summarize">>]),
                        "returned", Some(r.val), made)

\* the node with the extractor's error caught and no tools returned
extract_tools_node_swallow(st, o) ==
    LET made == [NoCalls EXCEPT !["openai"] = 1]
        r == AIToolExtractor_extract(st.transcript, state_video_title(st), o.openai)
    IN  IF ~AIToolExtractor_init(o.has_key).ok
        THEN NodeAnswer(AIToolExtractor_init(o.has_key), "none", None, NoCalls)
        ELSE IF ~r.ok
        THEN NodeAnswer(Ok([ai_tools |-> <<>>,
                            agent_execution_order |-> <<"extract_tools">>]),
                        "raised", None, made)
        ELSE NodeAnswer(
                 Ok([ai_tools |-> [i \in 1..Len(r.val) |-> AITool_model_dump(r.val[i])],
                     agent_execution_order |-> <<"extract_tools">>]),
                 "returned", Some(r.val), made)

\* the node with the tools dumped last to first
extract_tools_node_reversed(st, o) ==
    LET made == [NoCalls EXCEPT !["openai"] = 1]
        r == AIToolExtractor_extract(st.transcript, state_video_title(st), o.openai)
    IN  IF ~AIToolExtractor_init(o.has_key).ok
        THEN NodeAnswer(AIToolExtractor_init(o.has_key), "none", None, NoCalls)
        ELSE IF ~r.ok THEN NodeAnswer(r, "raised", None, made)
        ELSE NodeAnswer(
                 Ok([ai_tools |-> [i \in 1..Len(r.val) |->
                                      AITool_model_dump(r.val[Len(r.val) + 1 - i])],
                     agent_execution_order |-> <<"extract_tools">>]),
                 "returned", Some(r.val), made)

extract_tools_node(st, o) ==
    LET made == [NoCalls EXCEPT !["openai"] = 1]
        r == AIToolExtractor_extract(st.transcript, state_video_title(st), o.openai)
    IN  IF ~AIToolExtractor_init(o.has_key).ok
        THEN NodeAnswer(AIToolExtractor_init(o.has_key), "none", None, NoCalls)
        ELSE IF ~r.ok THEN NodeAnswer(r, "raised", None, made)
        ELSE NodeAnswer(
                 Ok([ai_tools |-> [i \in 1..Len(r.val) |-> AITool_model_dump(r.val[i])],
                     agent_execution_order |-> <<"extract_tools">>]),
                 "returned", Some(r.val), made)

----------------------------------------------------------------------------
(* The graph (create_multi_agent_graph).                                   *)

START == "__start__"

END == "__end__"

Nodes == {"fetch_transcript", "summarize", "extract_tools"}

\* the graph with summarize wired to START instead of to fetch_transcript
Edges_SummarizeFromStart ==
    { <<START, "fetch_transcript">>,
      <<START, "summarize">>,
      <<"fetch_transcript", "extract_tools">>,
      <<"summarize", END>>,
      <<"extract_tools", END>> }

\* the graph with extract_tools left unwired
Edges_ExtractUnwired ==
    { <<START, "fetch_transcript">>,
      <<"fetch_transcript", "summarize">>,
      <<"summarize", END>> }

\* the graph with the two consumers in sequence, summarize first
Edges_ExtractAfterSummarize ==
    { <<START, "fetch_transcript">>,
      <<"fetch_transcript", "summarize">>,
      <<"summarize", "extract_tools">>,
      <<"extract_tools", END>> }

\* the graph with the two consumers in sequence, extract_tools first
Edges_SummarizeAfterExtract ==
    { <<START, "fetch_transcript">>,
      <<"fetch_transcript", "extract_tools">>,
      <<"extract_tools", "summarize">>,
      <<"summarize", END>> }

\* the graph with each consumer also waiting for the other
Edges_ConsumersWaitForEachOther ==
    { <<START, "fetch_transcript">>,
      <<"fetch_transcript", "summarize">>,
      <<"fetch_transcript", "extract_tools">>,
      <<"summarize", "extract_tools">>,
      <<"extract_tools", "summarize">>,
      <<"summarize", END>>,
      <<"extract_tools", END>> }

Edges ==
    { <<START, "fetch_transcript">>,
      <<"fetch_transcript", "summarize">>,
      <<"fetch_transcript", "extract_tools">>,
      <<"summarize", END>>,
      <<"extract_tools", END>> }

Triggers(n) == {p \in Nodes \cup {START} : <<p, n>> \in Edges}

Leaves == {n \in Nodes : <<n, END>> \in Edges}

Node(n, st, o) ==
    CASE n = "fetch_transcript" -> fetch_transcript_node(st, o)
      [] n = "summarize" -> summarize_node(st, o)
      [] n = "extract_tools" -> extract_tools_node(st, o)

----------------------------------------------------------------------------
(* What the external services may do when a node asks them.                *)

TitleIntro == <<"I", "n", "t", "r", "o">>

ChanName == <<"C", "h", "a", "n">>

NotesText == <<"#", " ", "N">>

Hello == <<"h", "i">>

UrlWatch == <<"y", "t", ".", "c", "o", "m", "/", "w", "a", "t", "c", "h", "?", "v", "=", "a", "b", "c", "1", "2", "3", "4", "5", "6", "7", "8">>

UrlShort == <<"y", "o", "u", "t", "u", ".", "b", "e", "/", "d", "Q", "w", "4", "w", "9", "W", "g", "X", "c", "Q">>

UrlBad == <<"y", "t", ".", "c", "o", "m", "/", "w", "a", "t", "c", "h", "?", "v", "=", "a", "b", "c">>

Urls == {UrlWatch, UrlShort, UrlBad}

YtInfos ==
    { ("title" :> Some(TitleIntro)) @@ ("uploader" :> Some(ChanName)) @@ ("duration" :> Some(100)),
      EmptyDict,
      ("title" :> Some(<<>>)) @@ ("uploader" :> Some(<<>>)),
      ("title" :> None) @@ ("uploader" :> Some(ChanName)) }

YtOutcomes ==
    {[kind |-> "raise", info |-> EmptyDict], [kind |-> "none", info |-> EmptyDict]}
    \cup {[kind |-> "info", info |-> i] : i \in YtInfos}

SegTexts == {<<>>, Hello}

SegStarts == {0, 60}

Segments == [text : SegTexts, start : SegStarts]

\* the transcript API answers with segments in time order
SegmentLists ==
    {l \in UNION {[1..n -> Segments] : n \in 0..MaxSegs} :
        \A i \in 1..(Len(l) - 1) : l[i].start <= l[i + 1].start}

ApiOutcomes ==
    {[kind |-> "raise", segments |-> <<>>]}
    \cup {[kind |-> "segments", segments |-> l] : l \in SegmentLists}

GeminiOutcomes ==
    {[kind |-> "raise", text |-> None]}
    \cup {[kind |-> "text", text |-> t] : t \in {None, Some(<<>>), Some(NotesText)}}

ToolA == << <<"P", "y", "T">>, "framework", <<"a">>, None, 90, <<"u">> >>

ToolB == << <<"G", "P", "T">>, "model", <<"b">>, Some(12), 50, <<"v">> >>

ToolLists == UNION {[1..n -> {ToolA, ToolB}] : n \in 0..MaxTools}

OpenAIOutcomes ==
    {[kind |-> "raise", parsed |-> None], [kind |-> "parsed", parsed |-> None]}
    \cup {[kind |-> "parsed", parsed |-> Some(l)] : l \in ToolLists}

AllOutcomes(n) ==
    CASE n = "fetch_transcript" -> [yt : YtOutcomes, api : ApiOutcomes]
      [] n = "summarize" -> [has_key : BOOLEAN, gemini : GeminiOutcomes]
      [] n = "extract_tools" -> [has_key : BOOLEAN, openai : OpenAIOutcomes]

\* When two runs interleave, what the services answer to run r is marked
\* with r, so that a value of one run is recognised in the state of the other.
RunIds == {1, 2}

RunMark(r) == IF r = 1 THEN "1" ELSE "2"

RunTexts(r) == {<<c, RunMark(r)>> : c \in {"t", "c", "s", "n"}}

RunTool(r) == IF r = 1 THEN ToolA ELSE ToolB

RunOutcomes(r, n) ==
    CASE n = "fetch_transcript" ->
            [yt : {[kind |-> "info",
                    info |-> ("title" :> Some(<<"t", RunMark(r)>>))
                             @@ ("uploader" :> Some(<<"c", RunMark(r)>>))]},
             api : {[kind |-> "raise", segments |-> <<>>],
                    [kind |-> "segments",
                     segments |-> <<[text |-> <<"s", RunMark(r)>>, start |-> 0]>>]}]
      [] n = "summarize" ->
            [has_key : BOOLEAN,
             gemini : {[kind |-> "raise", text |-> None],
                       [kind |-> "text", text |-> Some(<<"n", RunMark(r)>>)]}]
      [] n = "extract_tools" ->
            [has_key : BOOLEAN,
             openai : {[kind |-> "raise", parsed |-> None],
                       [kind |-> "parsed", parsed |-> Some(<<RunTool(r)>>)]}]

Outcomes(n) == IF rid = 0 THEN AllOutcomes(n) ELSE RunOutcomes(rid, n)

\* the error each external service raises when it fails
ServiceError(s) ==
    CASE s = "yt_dlp" -> [type |-> "DownloadError", msg |-> "extract_info"]
      [] s = "transcript_api" -> [type |-> "TranscriptError", msg |-> "fetch"]
      [] s = "gemini" -> [type |-> "ProviderError", msg |-> "generate_content"]
      [] s = "openai" -> [type |-> "ProviderError", msg |-> "chat.completions.parse"]

ServiceFailed(n, o, s) ==
    IF s = "yt_dlp" THEN (IF n = "fetch_transcript" THEN o.yt.kind = "raise" ELSE FALSE)
    ELSE IF s = "transcript_api"
         THEN (IF n = "fetch_transcript" THEN o.api.kind = "raise" ELSE FALSE)
    ELSE IF s = "gemini" THEN (IF n = "summarize" THEN o.gemini.kind = "raise" ELSE FALSE)
    ELSE (IF n = "extract_tools" THEN o.openai.kind = "raise" ELSE FALSE)

\* the errors the services raised during a node's execution with outcome o,
\* given the calls the node made
ServiceErrors(n, o, made) ==
    LET e(s) == IF made[s] > 0
                THEN (IF ServiceFailed(n, o, s) THEN <<ServiceError(s)>> ELSE <<>>)
                ELSE <<>>
    IN  e("yt_dlp") \o e("transcript_api") \o e("gemini") \o e("openai")

----------------------------------------------------------------------------
(* The execution engine behind graph.invoke, and process.                  *)

\* a stage may start once every stage it has an edge from has committed
\* an engine that starts a failed stage again
EligibleRetry(n) ==
    /\ stage[n] \in {"PENDING", "FAILED"}
    /\ Triggers(n) # {}
    /\ \A p \in Triggers(n) : IF p = START THEN TRUE ELSE stage[p] = "COMMITTED"

Eligible(n) ==
    /\ stage[n] = "PENDING"
    /\ Triggers(n) # {}
    /\ \A p \in Triggers(n) : IF p = START THEN TRUE ELSE stage[p] = "COMMITTED"

NoneRunning == \A n \in Nodes : stage[n] # "RUNNING"

\* END: every stage with an edge to END has committed
EndReached == \A n \in Leaves : stage[n] = "COMMITTED"

\* fail-fast: a failure surfaces at once
SettledFailFast == TRUE

\* a failure surfaces to the caller once no branch is still running
Settled == NoneRunning

Fields == {"video_url", "transcript", "video_metadata", "lecture_notes", "ai_tools",
           "agent_execution_order"}

\* a run that has not started: nothing called, no state yet
\* the session of a request before its first use: nothing read, nothing to
\* write, get_db not ended
NoSession == [at |-> "open", read |-> None, pending |-> None, exit |-> None]

\* an empty database
NoDb == [videos |-> <<>>, results |-> <<>>, succeeded |-> <<>>, overlapped |-> FALSE,
         requests |-> 0]

NoRun ==
    << "idle", <<>>, "NOT_STARTED", [n \in Nodes |-> "PENDING"], EmptyDict,
       [n \in Nodes |-> None], [n \in Nodes |-> "none"], [n \in Nodes |-> None],
       NoCalls, None, None, None, [k \in Fields |-> <<>>], [n \in Nodes |-> 0],
       <<>>, <<>>, None, None, NoSession >>

\* no function of the tools called yet
NoCall == [call |-> "none", args |-> <<>>, out |-> <<>>]

\* database/connection.py as imported: no engine, no session factory
NoConn ==
    [_async_engine |-> None, _session_factory |-> None, created |-> 0,
     disposed |-> {}, last |-> "import", returned |-> None, session |-> <<>>]

LibInit ==
    /\ tool = NoCall
    /\ conn = NoConn
    /\ db = NoDb

Init ==
    /\ pc = NoRun[1]
    /\ video_url = NoRun[2]
    /\ run = NoRun[3]
    /\ stage = NoRun[4]
    /\ state = NoRun[5]
    /\ seen = NoRun[6]
    /\ collab = NoRun[7]
    /\ answer = NoRun[8]
    /\ calls = NoRun[9]
    /\ error = NoRun[10]
    /\ final_state = NoRun[11]
    /\ raised = NoRun[12]
    /\ writers = NoRun[13]
    /\ execs = NoRun[14]
    /\ failures = NoRun[15]
    /\ svc_raised = NoRun[16]
    /\ response = NoRun[17]
    /\ step_error = NoRun[18]
    /\ sess = NoRun[19]
    /\ rid = 0
    /\ other = NoRun
    /\ LibInit

\* process builds the initial state and calls graph.invoke
Process(url) ==
    /\ pc = "idle"
    /\ pc' = "invoking"
    /\ video_url' = url
    /\ run' = "RUNNING"
    /\ state' = initial_state(url)
    /\ UNCHANGED <<stage, seen, collab, answer, calls, error, final_state, raised,
                   writers, execs, failures, svc_raised, response, step_error, rid, other>>
    /\ UNCHANGED <<libvars, sess, db>>

\* the engine starts every eligible stage together, each on the current state
StartEligible ==
    /\ pc = "invoking"
    /\ NoneRunning
    /\ \E n \in Nodes : Eligible(n)
    /\ stage' = [n \in Nodes |-> IF Eligible(n) THEN "RUNNING" ELSE stage[n]]
    /\ seen' = [n \in Nodes |-> IF Eligible(n) THEN Some(state) ELSE seen[n]]
    /\ execs' = [n \in Nodes |-> IF Eligible(n) THEN execs[n] + 1 ELSE execs[n]]
    /\ UNCHANGED <<pc, video_url, run, state, collab, answer, calls, error,
                   final_state, raised, writers, failures, svc_raised, response, step_error,
                   rid, other>>
    /\ UNCHANGED <<libvars, sess, db>>

\* the error of a stage, as the engine reports it
StageError(n, err) == [stage |-> n, type |-> err.type, msg |-> err.msg]

\* the engine keeping the last failure it observed instead of the first
ObserveLast(seen_error, new_error) == Some(new_error)

\* the engine keeps the first failure it observes
Observe(seen_error, new_error) ==
    IF seen_error = None THEN Some(new_error) ELSE seen_error

\* a running stage finishes: its node returns an update, which is merged
\* into the state, or raises
Finish(n) ==
    /\ pc = "invoking"
    /\ stage[n] = "RUNNING"
    /\ \E o \in Outcomes(n) :
         \E a \in {Node(n, seen[n][1], o)} :
             /\ collab' = [collab EXCEPT ![n] = a.collab]
             /\ answer' = [answer EXCEPT ![n] = a.answer]
             /\ calls' = [s \in Services |-> calls[s] + a.calls[s]]
             /\ svc_raised' = svc_raised \o ServiceErrors(n, o, a.calls)
             /\ IF a.result.ok
                THEN /\ stage' = [stage EXCEPT ![n] = "COMMITTED"]
                     /\ state' = Merge(state, a.result.val)
                     /\ writers' = [k \in Fields |->
                                       IF k \in DOMAIN a.result.val
                                       THEN Append(writers[k], n) ELSE writers[k]]
                     /\ UNCHANGED <<run, error, failures>>
                ELSE /\ stage' = [stage EXCEPT ![n] = "FAILED"]
                     /\ run' = "FAILED"
                     /\ error' = Observe(error, StageError(n, a.result.err))
                     /\ failures' = Append(failures, StageError(n, a.result.err))
                     /\ UNCHANGED <<state, writers>>
    /\ UNCHANGED <<pc, video_url, seen, execs, final_state, raised, response, step_error, rid, other>>
    /\ UNCHANGED <<libvars, sess, db>>

\* graph.invoke returns the final state and process returns it
ProcessReturn ==
    /\ pc = "invoking"
    /\ error = None
    /\ NoneRunning
    /\ ~\E n \in Nodes : Eligible(n)
    /\ EndReached
    /\ pc' = "returned"
    /\ run' = "SUCCEEDED"
    /\ final_state' = Some(state)
    /\ UNCHANGED <<video_url, stage, state, seen, collab, answer, calls, error, raised,
                   writers, execs, failures, svc_raised, response, step_error, rid, other>>
    /\ UNCHANGED <<libvars, sess, db>>

\* graph.invoke raises the failure and process lets it through
ProcessRaise ==
    /\ pc = "invoking"
    /\ error # None
    /\ Settled
    /\ pc' = "raised"
    /\ raised' = error
    /\ UNCHANGED <<video_url, run, stage, state, seen, collab, answer, calls, error,
                   final_state, writers, execs, failures, svc_raised, response, step_error, rid,
                   other>>
    /\ UNCHANGED <<libvars, sess, db>>

----------------------------------------------------------------------------
(* database/connection.py: the engine and the session factory kept in      *)
(* module variables, and the get_db dependency.  An engine is the number of *)
(* its creation; a function answers with the new module state and what it  *)
(* returns or raises.                                                      *)

MaxEngines == 4

ConnAnswer(c, result) == [conn |-> c, result |-> result]

\* get_database_url: the configured URL has a known scheme or not
get_database_url(url_ok) ==
    IF url_ok THEN Ok("postgresql+asyncpg://")
    ELSE Raise("ValueError", "Invalid database URL format")

\* get_engine creating an engine on every call
get_engine_AlwaysCreates(c, url_ok) ==
    IF ~get_database_url(url_ok).ok THEN ConnAnswer(c, get_database_url(url_ok))
    ELSE ConnAnswer([c EXCEPT !._async_engine = Some(c.created + 1),
                              !.created = c.created + 1],
                    Ok(c.created + 1))

get_engine(c, url_ok) ==
    IF c._async_engine = None
    THEN (IF ~get_database_url(url_ok).ok THEN ConnAnswer(c, get_database_url(url_ok))
          ELSE ConnAnswer([c EXCEPT !._async_engine = Some(c.created + 1),
                                    !.created = c.created + 1],
                          Ok(c.created + 1)))
    ELSE ConnAnswer(c, Ok(c._async_engine[1]))

async_sessionmaker(engine) == [bind |-> engine]

get_session_maker(c, url_ok) ==
    IF c._session_factory = None
    THEN LET e == get_engine(c, url_ok)
         IN  IF ~e.result.ok THEN e
             ELSE ConnAnswer([e.conn EXCEPT !._session_factory =
                                               Some(async_sessionmaker(e.result.val))],
                             Ok(async_sessionmaker(e.result.val)))
    ELSE ConnAnswer(c, Ok(c._session_factory[1]))

dispose_engine(c) ==
    IF c._async_engine # None
    THEN ConnAnswer([c EXCEPT !._async_engine = None,
                              !.disposed = @ \cup {c._async_engine[1]}],
                    Ok(None))
    ELSE ConnAnswer(c, Ok(None))

HandlerOutcomes == {"returns", "raises SQLAlchemyError", "raises HTTPException"}

CommitOutcomes == {"ok", "raises SQLAlchemyError"}

SessionAnswer(ops, err) == [ops |-> ops, error |-> err]

\* get_db committing in its finally clause, whatever the handler did
get_db_exit_CommitAlways(handler, commit) ==
    IF handler = "raises SQLAlchemyError"
    THEN SessionAnswer(<<"rollback", "commit", "close", "close">>, Some("SQLAlchemyError"))
    ELSE IF handler = "raises HTTPException"
    THEN SessionAnswer(<<"commit", "close", "close">>, Some("HTTPException"))
    ELSE IF commit = "raises SQLAlchemyError"
    THEN SessionAnswer(<<"commit failed", "rollback", "close", "close">>,
                       Some("SQLAlchemyError"))
    ELSE SessionAnswer(<<"commit", "close", "close">>, None)

\* get_db from the yield on: what is done to the session, in order, and the
\* error that leaves get_db.  The session is closed by the finally clause
\* and again when the "async with" block is left.
get_db_exit(handler, commit) ==
    IF handler = "raises SQLAlchemyError"
    THEN SessionAnswer(<<"rollback", "close", "close">>, Some("SQLAlchemyError"))
    ELSE IF handler = "raises HTTPException"
    THEN SessionAnswer(<<"close", "close">>, Some("HTTPException"))
    ELSE IF commit = "raises SQLAlchemyError"
    THEN SessionAnswer(<<"commit failed", "rollback", "close", "close">>,
                       Some("SQLAlchemyError"))
    ELSE SessionAnswer(<<"commit", "close", "close">>, None)

\* a creation of an engine is possible within the bound
CanCreate(c) == c._async_engine # None \/ c.created < MaxEngines

Call_get_engine ==
    /\ CanCreate(conn)
    /\ \E url_ok \in BOOLEAN :
         \E a \in {get_engine(conn, url_ok)} :
             conn' = [a.conn EXCEPT !.last = "get_engine", !.returned = Some(a.result),
                                    !.session = <<>>]
    /\ UNCHANGED <<runvars, rid, other, tool, db>>

Call_get_session_maker ==
    /\ CanCreate(conn)
    /\ \E url_ok \in BOOLEAN :
         \E a \in {get_session_maker(conn, url_ok)} :
             conn' = [a.conn EXCEPT !.last = "get_session_maker",
                                    !.returned = Some(a.result), !.session = <<>>]
    /\ UNCHANGED <<runvars, rid, other, tool, db>>

Call_dispose_engine ==
    /\ \E a \in {dispose_engine(conn)} :
         conn' = [a.conn EXCEPT !.last = "dispose_engine", !.returned = Some(a.result),
                                !.session = <<>>]
    /\ UNCHANGED <<runvars, rid, other, tool, db>>

\* a request served with the get_db dependency: the session is made by the
\* factory, the handler runs, get_db ends
Call_get_db ==
    /\ CanCreate(conn)
    /\ \E url_ok \in BOOLEAN, handler \in HandlerOutcomes, commit \in CommitOutcomes :
         \E a \in {get_session_maker(conn, url_ok)} :
             conn' = [a.conn EXCEPT
                        !.last = "get_db",
                        !.returned = Some(a.result),
                        !.session = IF ~a.result.ok THEN <<>>
                                    ELSE <<[bind |-> a.result.val.bind,
                                            handler |-> handler,
                                            commit |-> commit,
                                            exit |-> get_db_exit(handler, commit)]>>]
    /\ UNCHANGED <<runvars, rid, other, tool, db>>

NextConn ==
    \/ Call_get_engine
    \/ Call_get_session_maker
    \/ Call_dispose_engine
    \/ Call_get_db

SpecConn == Init /\ [][NextConn]_vars

----------------------------------------------------------------------------
(* The request boundary: process_video, after orchestrator.process.        *)

\* pydantic's ValidationError is a ValueError, so "except ValueError"
\* catches both
IsValueError(type) == type \in {"ValueError", "ValidationError"}

ServerFault == 500

ClientFault == 400

\* a boundary that answers every failure as a server fault
HTTPException_of_AllServerFault(err) ==
    Some([status |-> ServerFault, success |-> FALSE, data |-> None,
          detail |-> <<"Failed to process video: ", err.msg>>])

\* the two except clauses of process_video
HTTPException_of(err) ==
    IF IsValueError(err.type)
    THEN Some([status |-> ClientFault, success |-> FALSE, data |-> None,
               detail |-> <<err.msg>>])
    ELSE Some([status |-> ServerFault, success |-> FALSE, data |-> None,
               detail |-> <<"Failed to process video: ", err.msg>>])

MetadataKeys == {"video_id", "video_title", "video_url", "channel_name", "duration"}

\* VideoMetadata(**final_state["video_metadata"])
ConvertMetadata(d) ==
    IF DOMAIN d = MetadataKeys
    THEN (IF VideoMetadataValid(Some(d.video_title), Some(d.channel_name))
          THEN Ok(VideoMetadata(d.video_id, Some(d.video_title), d.video_url,
                                Some(d.channel_name), d.duration))
          ELSE Raise("ValidationError", "VideoMetadata"))
    ELSE Raise("ValidationError", "VideoMetadata")

\* AITool(**tool)
ConvertTool(d) ==
    <<d.tool_name, d.category, d.context_snippet, d.timestamp, d.confidence_score,
      d.usage_context>>

MultiAgentResult(fs, video_metadata, ai_tools) ==
    [video_metadata |-> video_metadata, lecture_notes |-> fs.lecture_notes,
     ai_tools |-> ai_tools, agent_execution_order |-> fs.agent_execution_order]

MultiAgentResponse(result) ==
    Some([status |-> 200, success |-> TRUE, data |-> Some(result), detail |-> <<>>])

DbOutcomes == {"ok", "raise"}

DbError == [type |-> "SQLAlchemyError", msg |-> "execute"]

MultipleResultsFound == [type |-> "SQLAlchemyError", msg |-> "scalar_one_or_none"]

FlushError == [type |-> "SQLAlchemyError", msg |-> "flush"]

\* select(Video).where(Video.video_id == video_id): the committed rows with
\* this video_id, by their primary keys (a row's key is its place in the table)
SelectVideo(d, video_id) == {i \in DOMAIN d.videos : d.videos[i].video_id = video_id}

\* scalar_one_or_none(): no row, the one row, or MultipleResultsFound
scalar_one_or_none(d, rows) ==
    IF rows = {} THEN Ok(None)
    ELSE IF Cardinality(rows) = 1
    THEN LET i == CHOOSE i \in rows : TRUE
         IN  Ok(Some([id |-> i, times_processed |-> d.videos[i].times_processed]))
    ELSE Raise(MultipleResultsFound.type, MultipleResultsFound.msg)

\* the branch that saves a new Video whatever was found
Upsert_AlwaysCreates(read, video_id) ==
    [op |-> "insert", id |-> 0, video_id |-> video_id, times_processed |-> 1]

\* the two branches of "if video_record": the found record with its count
\* plus one, or a new record with count 1
Upsert(read, video_id) ==
    IF read # None
    THEN [op |-> "update", id |-> read[1].id, video_id |-> video_id,
          times_processed |-> read[1].times_processed + 1]
    ELSE [op |-> "insert", id |-> 0, video_id |-> video_id, times_processed |-> 1]

\* the commit of a session: the Video is written as the session holds it,
\* and the ProcessingResult is added with the Video's key
Commit(d, w) ==
    IF w.op = "update"
    THEN [d EXCEPT !.videos[w.id].times_processed = w.times_processed,
                   !.results = Append(@, w.id)]
    ELSE [d EXCEPT !.videos = Append(@, [video_id |-> w.video_id,
                                         times_processed |-> w.times_processed]),
                   !.results = Append(@, Len(d.videos) + 1)]

\* a session in a transaction that has read and has not ended
InTransaction(ss) == ss.at \in {"selected", "saved"}

\* process returned: the state is converted and the video is looked up
\* (up to the await of db.execute), unless one of these steps raises
process_video_return ==
    /\ pc = "returned"
    /\ response = None
    /\ sess.at = "open"
    /\ \E o \in DbOutcomes :
         LET fs == final_state[1]
             md == ConvertMetadata(fs.video_metadata)
             found == IF md.ok THEN scalar_one_or_none(db, SelectVideo(db, md.val[1]))
                      ELSE Ok(None)
             failed == IF ~md.ok THEN Some(md.err)
                       ELSE IF o = "raise" THEN Some(DbError)
                       ELSE IF ~found.ok THEN Some(found.err)
                       ELSE None
         IN  /\ step_error' = failed
             /\ response' = IF failed # None THEN HTTPException_of(failed[1]) ELSE None
             /\ sess' = IF failed # None THEN sess
                        ELSE [sess EXCEPT !.at = "selected", !.read = found.val]
             /\ db' = IF failed = None /\ InTransaction(other[19])
                      THEN [db EXCEPT !.overlapped = TRUE]
                      ELSE db
    /\ UNCHANGED <<pc, video_url, run, stage, state, seen, collab, answer, calls, error,
                   final_state, raised, writers, execs, failures, svc_raised, rid,
                   other>>
    /\ UNCHANGED libvars

\* the video was looked up: the Video is updated or created (and flushed),
\* the ProcessingResult is added, and the result is the response, unless
\* the flush raises
process_video_save ==
    /\ pc = "returned"
    /\ response = None
    /\ sess.at = "selected"
    /\ \E o \in DbOutcomes :
         LET fs == final_state[1]
             md == ConvertMetadata(fs.video_metadata)
             ai_tools == [i \in 1..Len(fs.ai_tools) |-> ConvertTool(fs.ai_tools[i])]
             w == Upsert(sess.read, md.val[1])
             failed == IF w.op = "insert" /\ o = "raise" THEN Some(FlushError) ELSE None
         IN  /\ step_error' = failed
             /\ response' = IF failed # None THEN HTTPException_of(failed[1])
                             ELSE MultiAgentResponse(MultiAgentResult(fs, md.val, ai_tools))
             /\ sess' = IF failed # None THEN [sess EXCEPT !.at = "saved"]
                        ELSE [sess EXCEPT !.at = "saved", !.pending = Some(w)]
    /\ UNCHANGED <<pc, video_url, run, stage, state, seen, collab, answer, calls, error,
                   final_state, raised, writers, execs, failures, svc_raised, rid,
                   other>>
    /\ UNCHANGED <<libvars, db>>

\* process raised: the error is answered by one of the except clauses
process_video_except ==
    /\ pc = "raised"
    /\ response = None
    /\ response' = HTTPException_of(raised[1])
    /\ UNCHANGED <<pc, video_url, run, stage, state, seen, collab, answer, calls, error,
                   final_state, raised, writers, execs, failures, svc_raised,
                   step_error, rid, other>>
    /\ UNCHANGED <<libvars, sess, db>>

\* what get_db sees at its yield: process_video returned its response, or
\* raised the HTTPException it made of the failure
HandlerOutcome_AlwaysReturns(resp) == "returns"

HandlerOutcome(resp) == IF resp.success THEN "returns" ELSE "raises HTTPException"

\* the handler has answered: get_db commits or not, and closes the session
get_db_end ==
    /\ response # None
    /\ sess.at # "closed"
    /\ \E commit \in CommitOutcomes :
         LET x == get_db_exit(HandlerOutcome(response[1]), commit)
             committed == \E k \in 1..Len(x.ops) : x.ops[k] = "commit"
         IN  /\ sess' = [sess EXCEPT !.at = "closed", !.exit = Some(x)]
             /\ db' = IF committed /\ sess.pending # None
                      THEN [Commit(db, sess.pending[1]) EXCEPT
                              !.succeeded = Append(@, sess.pending[1].video_id)]
                      ELSE db
    /\ UNCHANGED <<pc, video_url, run, stage, state, seen, collab, answer, calls, error,
                   final_state, raised, writers, execs, failures, svc_raised, response,
                   step_error, rid, other>>
    /\ UNCHANGED libvars

Next ==
    \/ \E url \in Urls : Process(url)
    \/ StartEligible
    \/ \E n \in Nodes : Finish(n)
    \/ ProcessReturn
    \/ ProcessRaise
    \/ process_video_return
    \/ process_video_save
    \/ process_video_except
    \/ get_db_end

Spec == Init /\ [][Next]_vars

----------------------------------------------------------------------------
(* Two requests whose runs interleave: the variables describe one run at a *)
(* time, and the other run waits in "other" until the two are switched.    *)

Switch ==
    /\ rid \in RunIds
    /\ rid' = 3 - rid
    /\ other' = runvars
    /\ pc' = other[1]
    /\ video_url' = other[2]
    /\ run' = other[3]
    /\ stage' = other[4]
    /\ state' = other[5]
    /\ seen' = other[6]
    /\ collab' = other[7]
    /\ answer' = other[8]
    /\ calls' = other[9]
    /\ error' = other[10]
    /\ final_state' = other[11]
    /\ raised' = other[12]
    /\ writers' = other[13]
    /\ execs' = other[14]
    /\ failures' = other[15]
    /\ svc_raised' = other[16]
    /\ response' = other[17]
    /\ step_error' = other[18]
    /\ sess' = other[19]
    /\ UNCHANGED <<libvars, db>>

InitRuns ==
    /\ pc = NoRun[1]
    /\ video_url = NoRun[2]
    /\ run = NoRun[3]
    /\ stage = NoRun[4]
    /\ state = NoRun[5]
    /\ seen = NoRun[6]
    /\ collab = NoRun[7]
    /\ answer = NoRun[8]
    /\ calls = NoRun[9]
    /\ error = NoRun[10]
    /\ final_state = NoRun[11]
    /\ raised = NoRun[12]
    /\ writers = NoRun[13]
    /\ execs = NoRun[14]
    /\ failures = NoRun[15]
    /\ svc_raised = NoRun[16]
    /\ response = NoRun[17]
    /\ step_error = NoRun[18]
    /\ sess = NoRun[19]
    /\ rid = 1
    /\ other = NoRun
    /\ LibInit

NextRuns == Next \/ Switch

SpecRuns == InitRuns /\ [][NextRuns]_vars

----------------------------------------------------------------------------
(* Requests served one after another and together by one event loop: a     *)
(* request gives way to the other only where process_video or get_db       *)
(* awaits, and a request that has ended is followed by a new one.          *)

MaxRequests == 1

\* process_video is not between its start and its first await:
\* orchestrator.process and the conversions are synchronous
AtAwait == pc = "idle" \/ response # None \/ sess.at # "open"

SwitchAtAwait ==
    /\ AtAwait
    /\ Switch

\* the request has ended, and the next request arrives
NewRequest ==
    /\ sess.at = "closed"
    /\ db.requests < MaxRequests
    /\ db' = [db EXCEPT !.requests = @ + 1]
    /\ pc' = NoRun[1]
    /\ video_url' = NoRun[2]
    /\ run' = NoRun[3]
    /\ stage' = NoRun[4]
    /\ state' = NoRun[5]
    /\ seen' = NoRun[6]
    /\ collab' = NoRun[7]
    /\ answer' = NoRun[8]
    /\ calls' = NoRun[9]
    /\ error' = NoRun[10]
    /\ final_state' = NoRun[11]
    /\ raised' = NoRun[12]
    /\ writers' = NoRun[13]
    /\ execs' = NoRun[14]
    /\ failures' = NoRun[15]
    /\ svc_raised' = NoRun[16]
    /\ response' = NoRun[17]
    /\ step_error' = NoRun[18]
    /\ sess' = NoRun[19]
    /\ UNCHANGED <<rid, other, libvars>>

NextDb == Next \/ SwitchAtAwait \/ NewRequest

SpecDb == InitRuns /\ [][NextDb]_vars

\* the steps of a request that has been made
Progress ==
    \/ StartEligible
    \/ \E n \in Nodes : Finish(n)
    \/ ProcessReturn
    \/ ProcessRaise
    \/ process_video_return
    \/ process_video_save
    \/ process_video_except
    \/ get_db_end

\* a request that can go on does go on: the stages' external calls
\* terminate, and the engine and process_video do not stop by themselves
Fairness == WF_vars(Progress)

\* one request, taken as far as it goes
FairSpec == InitRuns /\ [][Next]_vars /\ Fairness

----------------------------------------------------------------------------
(* The functions of YouTubeTranscriptExtractor called on their own, on     *)
(* sample arguments.                                                       *)

MaxChunkSegs == 3

ChunkStarts == {0, 30, 60, 130}

ChunkTexts == {<<"a">>, <<"b">>}

\* segment lists in time order
ChunkInputs ==
    {l \in UNION {[1..n -> [text : ChunkTexts, start : ChunkStarts]] : n \in 0..MaxChunkSegs} :
        \A i \in 1..(Len(l) - 1) : l[i].start <= l[i + 1].start}

VideoIds == {<<"a", "b", "c", "1", "2", "3", "4", "5", "6", "7", "8">>}

\* A call's answer does not depend on the calls before it, so a behaviour
\* makes one call.
Call_extract ==
    /\ tool = NoCall
    /\ \E url \in Urls, yt \in YtOutcomes, api \in ApiOutcomes :
         tool' = [call |-> "extract", args |-> [url |-> url, yt |-> yt, api |-> api],
                  out |-> extract(url, yt, api)]
    /\ UNCHANGED <<runvars, rid, other, conn, db>>

Call_create_chunks ==
    /\ tool = NoCall
    /\ \E l \in ChunkInputs, id \in VideoIds :
         tool' = [call |-> "_create_chunks",
                  args |-> [transcript_data |-> l, video_id |-> id],
                  out |-> _create_chunks(l, id)]
    /\ UNCHANGED <<runvars, rid, other, conn, db>>

NextTools == Call_extract \/ Call_create_chunks

SpecTools == Init /\ [][NextTools]_vars

----------------------------------------------------------------------------
(* Properties.                                                             *)

Consumers == {"summarize", "extract_tools"}

Sibling(n) == IF n = "summarize" THEN "extract_tools" ELSE "summarize"

\* C1: neither Summarize nor Extract leaves PENDING unless Fetch is
\* COMMITTED, and the state each of them reads holds the transcript and the
\* video metadata that Fetch's extractor returned.
C1_ConsumersStartAfterFetchCommitted ==
    \A n \in Consumers :
        stage[n] # "PENDING" =>
            /\ stage["fetch_transcript"] = "COMMITTED"
            /\ answer["fetch_transcript"] # None
            /\ seen[n] # None
            /\ seen[n][1].transcript = answer["fetch_transcript"][1].full_text
            /\ seen[n][1].video_metadata =
                   VideoMetadata_model_dump(answer["fetch_transcript"][1].metadata)

C1_Witness ==
    /\ stage["summarize"] = "RUNNING"
    /\ seen["summarize"][1].transcript = Hello \o Space \o Hello
    /\ seen["summarize"][1].video_metadata["video_title"] = TitleIntro

\* C2: once Fetch has failed (its extractor raised), the run is FAILED,
\* Summarize and Extract are PENDING and have read nothing, and neither the
\* summarization nor the extraction service has been called.
C2_FetchFailureStartsNoConsumer ==
    (stage["fetch_transcript"] = "FAILED" \/ collab["fetch_transcript"] = "raised") =>
        /\ run = "FAILED"
        /\ \A n \in Consumers : stage[n] = "PENDING" /\ seen[n] = None
        /\ calls["gemini"] = 0
        /\ calls["openai"] = 0

C2_Witness ==
    /\ pc = "raised"
    /\ stage["fetch_transcript"] = "FAILED"
    /\ raised[1].stage = "fetch_transcript"
    /\ raised[1].msg = "No transcript available for this video"
    /\ calls["transcript_api"] = 1

\* C3: the state a successful run returns has exactly three entries in
\* agent_execution_order, fetch_transcript first and then summarize and
\* extract_tools, each once, in either order.
C3_AccumulatorHasEachStageOnce ==
    pc = "returned" =>
        LET order == final_state[1].agent_execution_order
        IN  /\ Len(order) = 3
            /\ order[1] = "fetch_transcript"
            /\ {order[i] : i \in 1..Len(order)} = Nodes

C3_Witness ==
    /\ pc = "returned"
    /\ final_state[1].agent_execution_order =
           <<"fetch_transcript", "summarize", "extract_tools">>

\* C4: when one of Summarize and Extract has failed (its collaborator
\* raised) and the other has committed, the run is FAILED and process has
\* returned no state.
C4_OneBranchFailedNoResult ==
    \A n \in Consumers :
        ((stage[n] = "FAILED" \/ collab[n] = "raised")
           /\ stage[Sibling(n)] = "COMMITTED") =>
            /\ run = "FAILED"
            /\ pc # "returned"
            /\ final_state = None

C4_Witness ==
    /\ pc = "raised"
    /\ stage["extract_tools"] = "FAILED"
    /\ stage["summarize"] = "COMMITTED"
    /\ state.lecture_notes = NotesText
    /\ final_state = None

\* C5: the run is SUCCEEDED only with both Summarize and Extract COMMITTED.
C5_SucceededOnlyWithBothCommitted ==
    run = "SUCCEEDED" => \A n \in Consumers : stage[n] = "COMMITTED"

C5_Witness ==
    /\ run = "SUCCEEDED"
    /\ stage["summarize"] = "COMMITTED"
    /\ stage["extract_tools"] = "COMMITTED"
    /\ final_state[1].ai_tools = <<>>

Resolved == {"COMMITTED", "FAILED"}

\* C6: while one of Summarize and Extract has failed and its sibling is
\* still RUNNING, process has raised nothing and the sibling can still
\* finish; and once process has raised, Fetch has failed or both Summarize
\* and Extract are resolved (COMMITTED or FAILED).
C6_FailureReportedOnceBothResolved ==
    /\ \A n \in Consumers :
           (stage[n] = "FAILED" /\ stage[Sibling(n)] = "RUNNING") =>
               /\ pc = "invoking"
               /\ raised = None
               /\ ENABLED Finish(Sibling(n))
    /\ pc = "raised" =>
           \/ stage["fetch_transcript"] = "FAILED"
           \/ \A n \in Consumers : stage[n] \in Resolved

C6_Witness ==
    /\ stage["summarize"] = "FAILED"
    /\ stage["extract_tools"] = "RUNNING"
    /\ run = "FAILED"
    /\ error[1].stage = "summarize"

\* C7: the order of the summarize and extract_tools entries follows the
\* order in which the two stages commit, and nothing fixes that order: a
\* running consumer's sibling, while unresolved, can finish first; the
\* first to commit has its entry right after fetch_transcript's; and with
\* both committed the accumulator is one of the two permutations.
C7_OrderIsTheCommitOrder ==
    \A n \in Consumers :
        /\ (stage[n] = "RUNNING" /\ stage[Sibling(n)] \notin Resolved) =>
               ENABLED Finish(Sibling(n))
        /\ (stage[n] = "COMMITTED" /\ stage[Sibling(n)] \in {"RUNNING", "FAILED"}) =>
               state.agent_execution_order = <<"fetch_transcript", n>>
        /\ (stage[n] = "COMMITTED" /\ stage[Sibling(n)] = "COMMITTED") =>
               state.agent_execution_order \in
                   { <<"fetch_transcript", n, Sibling(n)>>,
                     <<"fetch_transcript", Sibling(n), n>> }

C7_Witness ==
    /\ pc = "returned"
    /\ final_state[1].agent_execution_order =
           <<"fetch_transcript", "extract_tools", "summarize">>

\* C8: Summarize and Extract start together: neither is still PENDING once
\* the other has started, so neither waits for the other's commit.
C8_ConsumersStartTogether ==
    \A n \in Consumers : stage[n] # "PENDING" => stage[Sibling(n)] # "PENDING"

C8_Witness ==
    /\ stage["fetch_transcript"] = "COMMITTED"
    /\ stage["summarize"] = "RUNNING"
    /\ stage["extract_tools"] = "RUNNING"

\* C9: the state a successful run returns has a non-empty transcript, video
\* title, channel name and lecture_notes, and an ai_tools sequence.
C9_SnapshotFieldsNonEmpty ==
    pc = "returned" =>
        /\ final_state[1].transcript # <<>>
        /\ final_state[1].video_metadata["video_title"] # <<>>
        /\ final_state[1].video_metadata["channel_name"] # <<>>
        /\ final_state[1].lecture_notes # <<>>
        /\ "ai_tools" \in DOMAIN final_state[1]

\* C10: the state a successful run returns is the merged state: video_url
\* is the argument of process, transcript and video_metadata are those of
\* the TranscriptData the extractor returned, lecture_notes is the text the
\* summarizer returned, and ai_tools holds the dumps of the tools the tool
\* extractor returned, in the same order.
C10_ReturnedStateIsMergedOutputs ==
    pc = "returned" =>
        LET f == final_state[1]
            data == answer["fetch_transcript"][1]
            notes == answer["summarize"][1]
            tools == answer["extract_tools"][1]
        IN  /\ f = state
            /\ f.video_url = video_url
            /\ f.transcript = data.full_text
            /\ f.video_metadata = VideoMetadata_model_dump(data.metadata)
            /\ f.lecture_notes = notes[1]
            /\ Len(f.ai_tools) = Len(tools)
            /\ \A i \in 1..Len(tools) : f.ai_tools[i] = AITool_model_dump(tools[i])

C10_Witness ==
    /\ pc = "returned"
    /\ Len(final_state[1].ai_tools) = 2
    /\ final_state[1].ai_tools[1].tool_name = ToolA[1]
    /\ final_state[1].ai_tools[2].tool_name = ToolB[1]
    /\ final_state[1].lecture_notes = NotesText
    /\ final_state[1].video_url = UrlShort

\* the stage that owns each write-once field
Owner == [transcript |-> "fetch_transcript", video_metadata |-> "fetch_transcript",
          lecture_notes |-> "summarize", ai_tools |-> "extract_tools"]

WriteOnce == DOMAIN Owner

\* C11: each write-once field (transcript, video_metadata, lecture_notes,
\* ai_tools) is written by no stage but its owner and at most once, and in a
\* run that succeeded it was written exactly once, by its owner; the input
\* field video_url is written by no stage.
C11_WriteOnceFieldsWrittenByOwnerOnce ==
    /\ writers.video_url = <<>>
    /\ \A k \in WriteOnce :
          /\ Len(writers[k]) <= 1
          /\ \A i \in 1..Len(writers[k]) : writers[k][i] = Owner[k]
          /\ run = "SUCCEEDED" => writers[k] = <<Owner[k]>>

C11_Witness ==
    /\ run = "SUCCEEDED"
    /\ \A k \in WriteOnce : writers[k] = <<Owner[k]>>
    /\ state.lecture_notes = NotesText

\* the values of a store are empty or come from what the services answered
\* to run r
OwnValues(r, st) ==
    /\ st.transcript \in {<<>>} \cup RunTexts(r)
    /\ st.lecture_notes \in {<<>>} \cup RunTexts(r)
    /\ \/ st.video_metadata = EmptyDict
       \/ /\ st.video_metadata.video_title \in RunTexts(r)
          /\ st.video_metadata.channel_name \in RunTexts(r)
    /\ \A i \in 1..Len(st.ai_tools) : ConvertTool(st.ai_tools[i]) = RunTool(r)

\* the fields of a store hold their initial values until their stage commits
FreshUntilWritten(stg, st) ==
    /\ stg["fetch_transcript"] # "COMMITTED" =>
          st.transcript = <<>> /\ st.video_metadata = EmptyDict
                               /\ st.agent_execution_order = <<>>
    /\ stg["summarize"] # "COMMITTED" => st.lecture_notes = <<>>
    /\ stg["extract_tools"] # "COMMITTED" => st.ai_tools = <<>>

IsolatedRun(r, url, stg, st, fs) ==
    /\ st # EmptyDict =>
          st.video_url = url /\ OwnValues(r, st) /\ FreshUntilWritten(stg, st)
    /\ fs # None => fs[1].video_url = url /\ OwnValues(r, fs[1])

\* C12: two runs, one after the other or interleaved, on the same or on
\* different inputs, have each their own store: a store holds its run's input
\* and only values that its own run's stages wrote, and each field holds its
\* empty initial value until the run's own stage writes it.
C12_RunsAreIsolated ==
    rid \in RunIds =>
        /\ IsolatedRun(rid, video_url, stage, state, final_state)
        /\ IsolatedRun(3 - rid, other[2], other[4], other[5], other[11])

\* both runs are in flight on the same input, each with committed stages
C12_Witness ==
    /\ rid = 1
    /\ pc = "invoking" /\ other[1] = "invoking"
    /\ video_url = other[2]
    /\ state.transcript = <<"s", "1">> /\ stage["summarize"] = "RUNNING"
    /\ other[5].lecture_notes = <<"n", "2">> /\ other[5].transcript = <<"s", "2">>

Terminal == {"SUCCEEDED", "FAILED"}

\* C13: process is synchronous: when every stage's external call terminates,
\* a run that was started reaches SUCCEEDED or FAILED, process then returns
\* or raises, and process has returned or raised only when the run is
\* SUCCEEDED or FAILED.
C13_EveryRunEndsAndProcessReturnsAfter ==
    /\ (run = "RUNNING") ~> (run \in Terminal)
    /\ (pc = "invoking") ~> (pc \in {"returned", "raised"})
    /\ [](pc \in {"returned", "raised"} => run \in Terminal)
    /\ [](pc = "returned" => run = "SUCCEEDED" /\ final_state # None)
    /\ [](pc = "raised" => run = "FAILED" /\ raised # None)

C13_Witness ==
    /\ pc = "raised"
    /\ run = "FAILED"
    /\ stage["extract_tools"] = "FAILED"
    /\ stage["summarize"] = "COMMITTED"
    /\ response = None

StageSteps ==
    {<<"PENDING", "RUNNING">>, <<"RUNNING", "COMMITTED">>, <<"RUNNING", "FAILED">>}

RunSteps ==
    {<<"NOT_STARTED", "RUNNING">>, <<"RUNNING", "SUCCEEDED">>, <<"RUNNING", "FAILED">>}

\* C14: a stage changes only from PENDING to RUNNING and from RUNNING to
\* COMMITTED or to FAILED; the run changes only from NOT_STARTED to RUNNING
\* and from RUNNING to SUCCEEDED or to FAILED; so COMMITTED, FAILED and
\* SUCCEEDED are never left.
C14_OnlyTheseTransitions ==
    [][ /\ \A n \in Nodes : stage'[n] = stage[n] \/ <<stage[n], stage'[n]>> \in StageSteps
        /\ run' = run \/ <<run, run'>> \in RunSteps ]_vars

C14_Witness ==
    /\ stage["fetch_transcript"] = "COMMITTED"
    /\ stage["summarize"] = "FAILED"
    /\ stage["extract_tools"] = "COMMITTED"
    /\ run = "FAILED"
    /\ response # None

\* C15: no stage is executed more than once in a run, also after a failure:
\* each node is started at most once, exactly once when its stage has left
\* PENDING, and no external service is called more than once.
C15_EachStageExecutedAtMostOnce ==
    /\ \A n \in Nodes : execs[n] = (IF stage[n] = "PENDING" THEN 0 ELSE 1)
    /\ \A s \in Services : calls[s] <= 1

C15_Witness ==
    /\ pc = "raised"
    /\ stage["summarize"] = "FAILED"
    /\ collab["summarize"] = "raised"
    /\ calls["gemini"] = 1
    /\ \A n \in Nodes : execs[n] = 1

InSeq(x, q) == \E i \in 1..Len(q) : q[i] = x

\* C16: a commit is atomic: in every state of a run, a write-once field has
\* been written if and only if the identifier of the stage that owns it is in
\* the accumulator, and that is so exactly when the stage is COMMITTED.
C16_FieldsSetIffStageInAccumulator ==
    pc # "idle" =>
        \A k \in WriteOnce :
            /\ writers[k] # <<>> <=> InSeq(Owner[k], state.agent_execution_order)
            /\ writers[k] # <<>> <=> stage[Owner[k]] = "COMMITTED"

C16_Witness ==
    /\ pc = "invoking"
    /\ stage["extract_tools"] = "RUNNING"
    /\ state.agent_execution_order = <<"fetch_transcript", "summarize">>
    /\ writers.lecture_notes = <<"summarize">>
    /\ writers.ai_tools = <<>>

\* C17: the error process raises is the first failure that happened in the
\* run, and it names the stage that failed; when Summarize and Extract both
\* fail, it is the failure of the one that failed first.
C17_FirstFailureIsReported ==
    pc = "raised" =>
        /\ failures # <<>>
        /\ raised = Some(failures[1])
        /\ stage[raised[1].stage] = "FAILED"
        /\ \A i \in 2..Len(failures) : failures[i].stage # raised[1].stage

C17_Witness ==
    /\ pc = "raised"
    /\ Len(failures) = 2
    /\ failures[1].stage = "extract_tools"
    /\ failures[1].type = "ProviderError"
    /\ failures[2].stage = "summarize"
    /\ failures[2].type = "TypeError"
    /\ raised[1].stage = "extract_tools"

\* the error of a service has surfaced as the failure of a stage, unchanged
Surfaced(e) ==
    \E j \in 1..Len(failures) : failures[j].type = e.type /\ failures[j].msg = e.msg

\* C18: failures propagate unchanged: every error that an external call
\* raised inside a stage is the failure of that stage, with the same type and
\* message, nothing in the stage having caught, replaced or swallowed it, and
\* the error process raises is such a failure, as it was raised.
C18_FailuresPropagateUnchanged ==
    /\ \A i \in 1..Len(svc_raised) : Surfaced(svc_raised[i])
    /\ pc = "raised" => raised # None /\ raised[1] \in {failures[j] : j \in 1..Len(failures)}

InputErrors == {"Invalid YouTube URL format", "No transcript available for this video"}

\* C19: an input error (an identifier that cannot be parsed, or no
\* transcript) is a ValueError raised by Fetch, the only failure of its run,
\* with Summarize and Extract never started and their services never called,
\* and the request is answered with HTTP 400; a malformed identifier always
\* ends Fetch that way.
C19_InputErrorFromFetchIsClientFault ==
    /\ \A i \in 1..Len(failures) :
          failures[i].msg \in InputErrors =>
              /\ failures = <<[stage |-> "fetch_transcript", type |-> "ValueError",
                               msg |-> failures[i].msg]>>
              /\ \A n \in Consumers : stage[n] = "PENDING" /\ execs[n] = 0
              /\ calls["gemini"] = 0 /\ calls["openai"] = 0
              /\ pc = "raised" => raised = Some(failures[1])
              /\ response # None =>
                    response[1].status = ClientFault /\ ~response[1].success
    /\ (stage["fetch_transcript"] \in {"COMMITTED", "FAILED"}
           /\ _extract_video_id(video_url) = None) =>
          /\ failures # <<>>
          /\ failures[1].msg = "Invalid YouTube URL format"

C19_Witness ==
    /\ video_url = UrlShort
    /\ failures # <<>>
    /\ failures[1].msg = "No transcript available for this video"
    /\ svc_raised = <<>>
    /\ response # None
    /\ response[1].status = ClientFault

\* the failure of a request: the error process raised, or the error of a
\* later step of process_video
RequestFailure == IF raised # None THEN raised ELSE step_error

\* C20: no failure is swallowed at the boundary: when the run or a later
\* step of process_video has failed, the response is an error response and
\* never a success, and a failure that is not one of the input errors is
\* answered with HTTP 500.
C20_FailureIsErrorAndNonInputIsServerFault ==
    response # None =>
        /\ response[1].success => run = "SUCCEEDED" /\ RequestFailure = None
        /\ RequestFailure # None =>
              /\ ~response[1].success
              /\ response[1].status \in {ClientFault, ServerFault}
              /\ RequestFailure[1].msg \notin InputErrors =>
                    response[1].status = ServerFault

\* A way of cutting the segments 1..n into consecutive groups: the set of the
\* positions after which a new group begins.
GroupOf(i, cuts) == 1 + Cardinality({c \in cuts : c < i})

GroupFirst(j, n, cuts) == CHOOSE i \in 1..n : GroupOf(i, cuts) = j /\ (i = 1 \/ i - 1 \in cuts)

GroupLast(j, n, cuts) == CHOOSE i \in 1..n : GroupOf(i, cuts) = j /\ (i = n \/ i \in cuts)

GroupText(j, l, cuts) ==
    Join([i \in 1..(GroupLast(j, Len(l), cuts) - GroupFirst(j, Len(l), cuts) + 1) |->
             l[GroupFirst(j, Len(l), cuts) + i - 1].text])

\* the chunks are the groups of this cutting, in order, numbered from 1
ChunksOfCutting(l, id, chunks, cuts) ==
    /\ Len(chunks) = Cardinality(cuts) + 1
    /\ \A j \in 1..Len(chunks) :
          /\ chunks[j].chunk_id = <<id, j>>
          /\ chunks[j].text = GroupText(j, l, cuts)

\* C29: _create_chunks partitions a segment list in time order: the chunks
\* are consecutive non-empty groups of the segments, each chunk's text made
\* of the texts of its group in order, every segment in exactly one group,
\* and the chunk ids numbered 1, 2, ... ; an empty list gives no chunk.
C29_ChunksPartitionTheTranscript ==
    tool.call = "_create_chunks" =>
        LET l == tool.args.transcript_data
        IN  IF l = <<>> THEN tool.out = <<>>
            ELSE \E cuts \in SUBSET (1..(Len(l) - 1)) :
                     ChunksOfCutting(l, tool.args.video_id, tool.out, cuts)

C29_Witness ==
    /\ tool.call = "_create_chunks"
    /\ Len(tool.args.transcript_data) = 3
    /\ tool.args.transcript_data[1].start = 0
    /\ tool.args.transcript_data[2].start = 30
    /\ tool.args.transcript_data[3].start = 60
    /\ Len(tool.out) = 2
    /\ tool.out[2].chunk_id[2] = 2

Window(t) == t \div chunk_duration

\* C30: _create_chunks groups by 60-second intervals: for a segment list in
\* time order, the start_time of each chunk is the start of the first
\* segment of the chunk, and the segments of one chunk all start in the same
\* 60-second window.
C30_ChunkStartsAtItsFirstSegment ==
    (tool.call = "_create_chunks" /\ tool.args.transcript_data # <<>>) =>
        LET l == tool.args.transcript_data
        IN  \E cuts \in SUBSET (1..(Len(l) - 1)) :
                /\ ChunksOfCutting(l, tool.args.video_id, tool.out, cuts)
                /\ \A j \in 1..Len(tool.out) :
                      tool.out[j].start_time = l[GroupFirst(j, Len(l), cuts)].start
                /\ \A i1, i2 \in 1..Len(l) :
                      GroupOf(i1, cuts) = GroupOf(i2, cuts) =>
                          Window(l[i1].start) = Window(l[i2].start)

\* a transcript was fetched and has at least one segment
TranscriptFetched(api) == api.kind = "segments" /\ api.segments # <<>>

\* C26: extract checks in a fixed order.  A URL in which no video id is
\* found raises ValueError with no metadata and no transcript call made;
\* otherwise both calls are made, and an absent or empty transcript raises
\* ValueError; a metadata lookup that raised never fails the extraction,
\* the default title and channel are used; a TranscriptData is returned
\* only when a video id was found and a non-empty transcript was fetched.
C26_ExtractChecksInOrder ==
    tool.call = "extract" =>
        LET a == tool.args
            r == tool.out
            video_id == _extract_video_id(a.url)
        IN  /\ video_id = None =>
                  /\ r.result = Raise("ValueError", "Invalid YouTube URL format")
                  /\ r.yt_calls = 0 /\ r.api_calls = 0
            /\ a.url = UrlBad => video_id = None
            /\ video_id # None => r.yt_calls = 1 /\ r.api_calls = 1
            /\ (video_id # None /\ ~TranscriptFetched(a.api)) =>
                  r.result = Raise("ValueError", "No transcript available for this video")
            /\ (video_id # None /\ TranscriptFetched(a.api) /\ a.yt.kind = "raise") =>
                  /\ r.result.ok
                  /\ r.result.val.metadata[2] = VideoPrefix \o video_id[1]
                  /\ r.result.val.metadata[4] = Unknown
            /\ r.result.ok => video_id # None /\ TranscriptFetched(a.api)

C26_Witness ==
    /\ tool.call = "extract"
    /\ tool.args.url = UrlWatch
    /\ tool.args.yt.kind = "raise"
    /\ tool.args.api.kind = "segments"
    /\ Len(tool.args.api.segments) = 2
    /\ tool.out.result.ok
    /\ tool.out.result.val.metadata[4] = Unknown

\* the engines that were created and not disposed
LiveEngines == (1..conn.created) \ conn.disposed

C28_FactoryBoundToLiveEngine ==
    (conn.last = "get_session_maker" /\ conn.returned[1].ok) =>
        /\ conn.returned[1].val.bind \notin conn.disposed
        /\ conn._async_engine = Some(conn.returned[1].val.bind)

\* C25: get_db commits exactly when the handler finished without raising,
\* never commits when the handler raised, rolls back exactly when the handler
\* or the commit raised a SQLAlchemyError, lets that error and the handler's
\* error through, and ends every path by closing the session.
C25_GetDbCommitsOnlyAfterHandlerReturned ==
    \A i \in 1..Len(conn.session) :
        LET ss == conn.session[i]
            ops == ss.exit.ops
            has(op) == \E k \in 1..Len(ops) : ops[k] = op
        IN  /\ (has("commit") \/ has("commit failed")) <=> ss.handler = "returns"
            /\ has("commit") <=> (ss.handler = "returns" /\ ss.commit = "ok")
            /\ has("rollback") <=>
                  \/ ss.handler = "raises SQLAlchemyError"
                  \/ ss.handler = "returns" /\ ss.commit = "raises SQLAlchemyError"
            /\ has("rollback") => ss.exit.error = Some("SQLAlchemyError")
            /\ ss.handler = "raises HTTPException" => ss.exit.error = Some("HTTPException")
            /\ ss.exit.error = None <=> has("commit")
            /\ ops[Len(ops)] = "close"
            /\ \A k \in 1..Len(ops) : ops[k] = "close" =>
                  \A k2 \in k..Len(ops) : ops[k2] = "close"

C25_Witness ==
    /\ conn.last = "get_db"
    /\ Len(conn.session) = 1
    /\ conn.session[1].handler = "returns"
    /\ conn.session[1].commit = "raises SQLAlchemyError"
    /\ conn.session[1].exit.ops = <<"commit failed", "rollback", "close", "close">>

\* get_db called commit on the session of the request at hand
Committed == sess.exit # None /\ \E k \in 1..Len(sess.exit[1].ops) : sess.exit[1].ops[k] = "commit"

\* C21: a Video or ProcessingResult record is added or updated only after
\* orchestrator.process has returned a final state: the session holds a
\* write, and the tables change, only for a request whose run succeeded and
\* whose handler answered with the result; a request whose run failed reads
\* and writes nothing, and get_db does not commit for it.
C21_RecordsOnlyAfterProcessReturned ==
    /\ [](sess.pending # None =>
             pc = "returned" /\ run = "SUCCEEDED" /\ final_state # None)
    /\ [](pc # "returned" => sess.read = None /\ sess.pending = None /\ ~Committed)
    /\ []((response # None /\ ~response[1].success) => sess.pending = None /\ ~Committed)
    /\ [][(db.videos' # db.videos \/ db.results' # db.results) =>
             /\ pc = "returned"
             /\ final_state # None
             /\ response # None
             /\ response[1].success
             /\ sess.pending # None]_vars

C21_Witness ==
    /\ pc = "raised"
    /\ sess.at = "closed"
    /\ sess.exit = Some(SessionAnswer(<<"close", "close">>, Some("HTTPException")))
    /\ Len(db.videos) = 1
    /\ Len(db.results) = 2

Count(seq, v) == Cardinality({i \in DOMAIN seq : seq[i] = v})

\* the video_ids of the requests that succeeded and of the Video rows
SavedIds ==
    {db.succeeded[i] : i \in DOMAIN db.succeeded}
    \cup {db.videos[i].video_id : i \in DOMAIN db.videos}

\* C22: when the requests' transactions do not overlap, there is one Video
\* row per video_id that was processed with success, its times_processed is
\* the number n of these requests (1 after the first, one more after each
\* later one), n ProcessingResult rows point to it, and every successful
\* request has added exactly one ProcessingResult.
C22_SequentialRequestsCountExactly ==
    ~db.overlapped =>
        /\ Len(db.results) = Len(db.succeeded)
        /\ \A v \in SavedIds :
              /\ Count(db.succeeded, v) > 0
              /\ Cardinality(SelectVideo(db, v)) = 1
              /\ \A i \in SelectVideo(db, v) :
                    /\ db.videos[i].times_processed = Count(db.succeeded, v)
                    /\ Count(db.results, i) = Count(db.succeeded, v)

C22_Witness ==
    /\ ~db.overlapped
    /\ Len(db.succeeded) = 3
    /\ Len(db.videos) = 1
    /\ db.videos[1].times_processed = 3
    /\ db.results = <<1, 1, 1>>

\* C24: under any interleaving of the requests for one video_id, after n of
\* them have succeeded there is exactly one Video row for it and its
\* times_processed is n.
C24_NoLostUpdateNoDuplicate ==
    \A i \in DOMAIN db.succeeded :
        /\ Cardinality(SelectVideo(db, db.succeeded[i])) = 1
        /\ \A r \in SelectVideo(db, db.succeeded[i]) :
              db.videos[r].times_processed = Count(db.succeeded, db.succeeded[i])

\* C23: only the two input errors of Fetch are answered as client faults:
\* a response with HTTP 400 answers a failure of Fetch whose message is one
\* of the input errors, and a failure of Summarize or Extract, or of a step
\* after process, is answered with HTTP 500.
C23_OnlyFetchInputErrorsAreClientFaults ==
    response # None =>
        /\ response[1].status = ClientFault =>
              /\ raised # None
              /\ raised[1].stage = "fetch_transcript"
              /\ raised[1].msg \in InputErrors
        /\ (raised # None /\ raised[1].stage \in Consumers) =>
              response[1].status = ServerFault
        /\ step_error # None => response[1].status = ServerFault

====
